---------------------------- MODULE Spec2Model ----------------------------
(***************************************************************************)
(* A model of the pet-product recommendation UI: the App component         *)
(* (src/src/App.tsx: filter state, product loader, filter effect, view     *)
(* selection) and the FilterPanel component (src/src/components/           *)
(* FilterPanel.tsx: working filter state, special-care option loader).     *)
(*                                                                         *)
(* Strings that the code inspects character by character (product names,   *)
(* search terms) are sequences of one-character strings.  A React effect   *)
(* is an action of its own, enabled while its dependencies have changed    *)
(* since it last ran; event handlers and promise continuations run only    *)
(* when no effect is pending, as React flushes the passive effects of a    *)
(* commit before it handles the next event.                                *)
(***************************************************************************)
EXTENDS Integers, Sequences, FiniteSets, TLC

\* ------------------------------------------------------------------ bounds

\* The most requests one loader may have outstanding before the model stops
\* starting new ones (the code itself has no such limit).
MaxInFlight == 2

\* ------------------------------------------------------- JavaScript values

\* String.prototype.toLowerCase on one character of the model's alphabet.
LowerChar(c) ==
    CASE c = "A" -> "a"
      [] c = "B" -> "b"
      [] c = "U" -> "u"
      [] c = "P" -> "p"
      [] OTHER -> c

ToLowerCase(s) == [i \in 1..Len(s) |-> LowerChar(s[i])]

\* String.prototype.includes: t occurs in s as a contiguous substring.
Includes(s, t) ==
    \E i \in 0..(Len(s) - Len(t)) : SubSeq(s, i + 1, i + Len(t)) = t

\* Array.prototype.includes on an array of ids.
ArrayIncludes(arr, x) == \E i \in 1..Len(arr) : arr[i] = x

\* JavaScript truthiness of an optional boolean field, which the model
\* encodes as "true", "false" or "undefined".
Truthy(v) == v = "true"

\* ------------------------------------------------------------ data model

FoodTypes == {"dry", "wet"}
PetTypes == {"dog", "cat"}

\* src/src/App.tsx initialFilters.
initialFilters ==
    [foodType |-> "dry", petType |-> "dog", isPregnant |-> FALSE,
     isLactating |-> FALSE, lifeStage |-> "", specialCare |-> << >>,
     searchTerm |-> << >>]

\* A special-care container as the API delivers it: an array, a keyed
\* object (its values in iteration order), null, or nothing at all.
CareArray(items) == [shape |-> "array", items |-> items]
CareObject(items) == [shape |-> "object", items |-> items]
CareNull == [shape |-> "null", items |-> << >>]
CareUndefined == [shape |-> "undefined", items |-> << >>]

Care(id) == [id |-> id, name |-> id]

\* ------------------------------------------------------- filter predicate

\* The ids the filter callback collects from product.specialcares.
ProductCareIds(product) ==
    IF product.specialcares.shape = "array"
    THEN [i \in 1..Len(product.specialcares.items) |->
            product.specialcares.items[i].id]
    ELSE IF product.specialcares.shape = "object"
    THEN [i \in 1..Len(product.specialcares.items) |->
            product.specialcares.items[i].id]
    ELSE << >>

\* A faulty variant of SomeCareSelected: every selected id must be present.
EveryCareSelected(f, product) ==
    \A i \in 1..Len(f.specialCare) :
        ArrayIncludes(ProductCareIds(product), f.specialCare[i])

\* filters.specialCare.some(id => productCareIds.includes(id))
SomeCareSelected(f, product) ==
    \E i \in 1..Len(f.specialCare) :
        ArrayIncludes(ProductCareIds(product), f.specialCare[i])

\* The callback of products.filter, with its early returns in order.
Matches(product, f) ==
    IF f.searchTerm # << >>
       /\ ~Includes(ToLowerCase(product.name), ToLowerCase(f.searchTerm))
    THEN FALSE
    ELSE IF f.petType # "" /\ product.petType # f.petType
    THEN FALSE
    ELSE IF f.lifeStage # "" /\ product.lifeStage # f.lifeStage
    THEN FALSE
    ELSE IF f.isPregnant /\ ~Truthy(product.forPregnant)
    THEN FALSE
    ELSE IF f.isLactating /\ ~Truthy(product.forLactating)
    THEN FALSE
    ELSE IF Len(f.specialCare) > 0
    THEN (IF ~SomeCareSelected(f, product) THEN FALSE ELSE TRUE)
    ELSE TRUE

\* products.filter(callback): the kept products in their original order.
FilterProducts(ps, f) == SelectSeq(ps, LAMBDA p : Matches(p, f))

\* ---------------------------------------------------------- product loader

\* What the catalog endpoint may answer: a body with result.products, a body
\* without it, a non-success status, a transport failure, an unparsable body.
ProductResponses == {"ok", "empty", "status", "transport", "parse"}

UnknownProduct ==
    <<"U", "n", "k", "n", "o", "w", "n", " ", "P", "r", "o", "d", "u", "c", "t">>

\* The raw records the catalog service holds per food type (result.products,
\* in Object.values order).
RawCatalog(foodType) ==
    IF foodType = "dry"
    THEN << [id |-> "1", name |-> <<"A", "b">>, type |-> "dog",
             productType |-> "dry", lifeStages |-> <<"adult">>,
             specialcares |-> CareArray(<<Care("d1")>>),
             forPregnant |-> "true", forLactating |-> "false"],
            [id |-> "2", name |-> <<"a">>, type |-> "cat",
             productType |-> "wet", lifeStages |-> << >>,
             specialcares |-> CareObject(<<Care("c1")>>),
             forPregnant |-> "undefined", forLactating |-> "true"],
            [id |-> "3", name |-> <<"B", "a">>, type |-> "dog",
             productType |-> "dry", lifeStages |-> <<"senior", "adult">>,
             specialcares |-> CareUndefined,
             forPregnant |-> "false", forLactating |-> "undefined"] >>
    ELSE << [id |-> "4", name |-> <<"b">>, type |-> "dog",
             productType |-> "dry", lifeStages |-> <<"adult">>,
             specialcares |-> CareArray(<<Care("d2"), Care("d1")>>),
             forPregnant |-> "false", forLactating |-> "true"],
            [id |-> "", name |-> << >>, type |-> "",
             productType |-> "wet", lifeStages |-> << >>,
             specialcares |-> CareNull,
             forPregnant |-> "undefined", forLactating |-> "undefined"] >>

\* The record the loader builds from one raw record.
MapProduct(prod, foodType) ==
    [id |-> prod.id,
     name |-> IF prod.name # << >> THEN prod.name ELSE UnknownProduct,
     productType |-> foodType,
     petType |-> prod.type,
     lifeStage |-> IF Len(prod.lifeStages) > 0 THEN prod.lifeStages[1] ELSE "",
     specialcares |-> prod.specialcares,
     forPregnant |-> prod.forPregnant,
     forLactating |-> prod.forLactating]

\* Whether the try block of fetchProducts throws on this answer.
ProductTryThrows(resp) == resp \in {"status", "transport", "parse"}

\* The array fetchProducts hands to setProducts for this answer.
LoadedProducts(foodType, resp) ==
    IF ProductTryThrows(resp) THEN << >>
    ELSE IF resp = "empty" THEN << >>
    ELSE [i \in 1..Len(RawCatalog(foodType)) |->
            MapProduct(RawCatalog(foodType)[i], foodType)]

\* ------------------------------------------------------ special-care loader

\* What the taxonomy endpoint may answer: a body with the nested list, a
\* body without it, a non-success status, a transport failure.
CareResponses == {"ok", "noshape", "status", "transport"}

Null == "null"

\* The nested list the taxonomy service holds per species.
RawTaxonomy(petType) ==
    IF petType = "dog"
    THEN << [specialcare_id |-> "d1", specialcare_name |-> "d1"],
            [specialcare_id |-> "d2", specialcare_name |-> "d2"] >>
    ELSE << [specialcare_id |-> "c1", specialcare_name |-> "c1"] >>

Returned(value) == [kind |-> "return", value |-> value, message |-> ""]
Thrown(message) == [kind |-> "throw", value |-> << >>, message |-> message]

\* A faulty variant of the loader: the catch block swallows the error.
SwallowingFetchSpecialCareOptionsApi(petType, resp) ==
    IF petType = "" THEN Returned(<< >>)
    ELSE IF resp \in {"transport", "status", "noshape"} THEN Returned(<< >>)
    ELSE Returned([i \in 1..Len(RawTaxonomy(petType)) |->
                    [id |-> RawTaxonomy(petType)[i].specialcare_id,
                     name |-> RawTaxonomy(petType)[i].specialcare_name]])

\* fetchSpecialCareOptionsApi: what the call returns or throws.
FetchSpecialCareOptionsApi(petType, resp) ==
    IF petType = "" THEN Returned(<< >>)
    ELSE IF resp = "transport" THEN Thrown("Failed to fetch")
    ELSE IF resp = "status" THEN Thrown("Request failed with status 500")
    ELSE IF resp = "noshape" THEN Returned(<< >>)
    ELSE Returned([i \in 1..Len(RawTaxonomy(petType)) |->
                    [id |-> RawTaxonomy(petType)[i].specialcare_id,
                     name |-> RawTaxonomy(petType)[i].specialcare_name]])

\* ------------------------------------------------------ benefits normalizer

\* product.benefits as the API may deliver it: an array of strings, a string,
\* nothing at all, or a value of another type.
BenefitsArray(items) == [type |-> "array", items |-> items, chars |-> << >>]
BenefitsString(chars) == [type |-> "string", items |-> << >>, chars |-> chars]
BenefitsUndefined == [type |-> "undefined", items |-> << >>, chars |-> << >>]
BenefitsOther(type) == [type |-> type, items |-> << >>, chars |-> << >>]

\* The characters String.prototype.trim removes, of the model's alphabet.
IsWhiteSpace(c) == c \in {" ", "\n", "\t", "\r"}

\* The characters the class [\n;,] matches.
IsSeparator(c) == c \in {"\n", ";", ","}

\* String.prototype.trim
Trim(s) ==
    IF \A i \in 1..Len(s) : IsWhiteSpace(s[i]) THEN << >>
    ELSE LET first == CHOOSE i \in 1..Len(s) :
                         /\ ~IsWhiteSpace(s[i])
                         /\ \A j \in 1..(i - 1) : IsWhiteSpace(s[j])
             last == CHOOSE i \in 1..Len(s) :
                         /\ ~IsWhiteSpace(s[i])
                         /\ \A j \in (i + 1)..Len(s) : IsWhiteSpace(s[j])
         IN SubSeq(s, first, last)

\* The end of the longest match of [\n;,]+ that starts at position i of s.
RECURSIVE SeparatorEnd(_, _)
SeparatorEnd(s, i) ==
    IF i < Len(s) /\ IsSeparator(s[i + 1]) THEN SeparatorEnd(s, i + 1) ELSE i

\* String.prototype.split(/[\n;,]+/) from position i on, piece being the
\* characters read since the last match.
RECURSIVE SplitFrom(_, _, _)
SplitFrom(s, i, piece) ==
    IF i > Len(s) THEN <<piece>>
    ELSE IF IsSeparator(s[i])
    THEN <<piece>> \o SplitFrom(s, SeparatorEnd(s, i) + 1, << >>)
    ELSE SplitFrom(s, i + 1, Append(piece, s[i]))

Split(s) == SplitFrom(s, 1, << >>)

\* Array.prototype.slice(0, end)
Slice(arr, end) == SubSeq(arr, 1, IF Len(arr) < end THEN Len(arr) ELSE end)

\* split(...).map(b => b.trim())
TrimmedPieces(s) == [i \in 1..Len(Split(s)) |-> Trim(Split(s)[i])]

\* A faulty variant of getNormalizedBenefits: the empty pieces are kept.
getNormalizedBenefitsKeepingEmpty(benefits) ==
    IF benefits.type = "array" THEN Returned(Slice(benefits.items, 3))
    ELSE IF benefits.type = "string" /\ Len(Trim(benefits.chars)) > 0
    THEN Returned(Slice(TrimmedPieces(benefits.chars), 3))
    ELSE Returned(<< >>)

\* getNormalizedBenefits(benefits): no path of it throws.
getNormalizedBenefits(benefits) ==
    IF benefits.type = "array" THEN Returned(Slice(benefits.items, 3))
    ELSE IF benefits.type = "string" /\ Len(Trim(benefits.chars)) > 0
    THEN Returned(Slice(SelectSeq(TrimmedPieces(benefits.chars),
                                  LAMBDA b : b # << >>), 3))
    ELSE Returned(<< >>)

\* What displayBenefits holds before the card has rendered.
NotRendered == [kind |-> "unrendered", value |-> << >>, message |-> ""]

\* ------------------------------------------------------------------ state

VARIABLES
    filters,               \* App: useState(initialFilters)
    filtersRef,            \* the identity of the object held in filters
    products,              \* App: useState([])
    searchResults,         \* App: useState([])
    isLoading,             \* App: useState(false)
    hasSearched,           \* App: useState(false)
    internalFilters,       \* FilterPanel: useState(externalFilters)
    internalRef,           \* the identity of the object held in internalFilters
    specialCareOptions,    \* FilterPanel: useState([])
    isLoadingSpecialCare,  \* FilterPanel: useState(false)
    errorSpecialCare,      \* FilterPanel: useState(null)
    productReqs,           \* catalog requests awaiting their answer
    careReqs,              \* taxonomy requests awaiting their answer
    pending,               \* effects whose dependencies changed, not yet run
    latestProducts,        \* what the most recently started product load set
    latestCare,            \* what the most recently started care load produced
    lastEvent,             \* the last handler or continuation that ran
    rawBenefits,           \* ProductCard: product.benefits of its product
    displayBenefits        \* ProductCard: the benefit lines the card shows

vars ==
    <<filters, filtersRef, products, searchResults, isLoading, hasSearched,
      internalFilters, internalRef, specialCareOptions, isLoadingSpecialCare,
      errorSpecialCare, productReqs, careReqs, pending, latestProducts,
      latestCare, lastEvent, rawBenefits, displayBenefits>>

appVars == <<filters, filtersRef, products, searchResults, isLoading,
             hasSearched, productReqs, latestProducts>>

panelVars == <<internalFilters, internalRef, specialCareOptions,
               isLoadingSpecialCare, errorSpecialCare, careReqs, latestCare>>

cardVars == <<rawBenefits, displayBenefits>>

\* Object identities: InitialRef is the module-level initialFilters object;
\* an object created by a handler gets an identity no state variable holds.
InitialRef == 0
FreshRef(other) == IF other = 1 THEN 2 ELSE 1

Pending == [kind |-> "pending", value |-> << >>, message |-> ""]

\* What lastEvent records: the handler or continuation, the key or model
\* argument it was called with, the answer it received, the number of
\* special-care ids selected in the form before it ran, and what the loader
\* call it awaited returned or threw.
Event(op, key, resp, before, res) ==
    [op |-> op, key |-> key, resp |-> resp, before |-> before, res |-> res]

NoResult == [kind |-> "none", value |-> << >>, message |-> ""]

PlainEvent(op) == Event(op, "", "", Len(internalFilters.specialCare), NoResult)

\* A sequence without its i-th element.
RemoveAt(s, i) == SubSeq(s, 1, i - 1) \o SubSeq(s, i + 1, Len(s))

\* Every outstanding request loses the mark of being the latest one.
Superseded(reqs) == [i \in 1..Len(reqs) |-> [reqs[i] EXCEPT !.latest = FALSE]]

\* The state after the first render, before the mount effects have run.
Init ==
    /\ filters = initialFilters
    /\ filtersRef = InitialRef
    /\ products = << >>
    /\ searchResults = << >>
    /\ isLoading = FALSE
    /\ hasSearched = FALSE
    /\ internalFilters = initialFilters
    /\ internalRef = InitialRef
    /\ specialCareOptions = << >>
    /\ isLoadingSpecialCare = FALSE
    /\ errorSpecialCare = Null
    /\ productReqs = << >>
    /\ careReqs = << >>
    /\ pending = {"sync", "care", "fetch", "filter"}
    /\ latestProducts = Pending
    /\ latestCare = Pending
    /\ lastEvent = Event("mount", "", "", 0, NoResult)
    /\ rawBenefits = BenefitsUndefined
    /\ displayBenefits = NotRendered

\* ---------------------------------------------------------------- effects

\* FilterPanel, useEffect on [externalFilters]: setInternalFilters(external).
SyncEffect ==
    /\ "sync" \in pending
    /\ internalFilters' = filters
    /\ internalRef' = filtersRef
    /\ pending' = (pending \ {"sync"}) \cup
                    (IF internalFilters.petType # filters.petType
                     THEN {"care"} ELSE {})
    /\ UNCHANGED <<appVars, cardVars, specialCareOptions, isLoadingSpecialCare,
                   errorSpecialCare, careReqs, latestCare, lastEvent>>

\* FilterPanel, useEffect on [internalFilters.petType]: loadOptions up to its
\* await.
CareEffect ==
    /\ "care" \in pending
    /\ "sync" \notin pending
    /\ pending' = pending \ {"care"}
    /\ IF internalFilters.petType = ""
       THEN /\ specialCareOptions' = << >>
            /\ UNCHANGED <<isLoadingSpecialCare, errorSpecialCare, careReqs,
                           latestCare>>
       ELSE /\ isLoadingSpecialCare' = TRUE
            /\ errorSpecialCare' = Null
            /\ careReqs' = Append(Superseded(careReqs),
                                  [petType |-> internalFilters.petType,
                                   latest |-> TRUE])
            /\ latestCare' = Pending
            /\ UNCHANGED specialCareOptions
    /\ UNCHANGED <<appVars, cardVars, internalFilters, internalRef, lastEvent>>

\* App, useEffect on [filters.foodType]: fetchProducts up to its await.
FetchEffect ==
    /\ "fetch" \in pending
    /\ pending \cap {"sync", "care"} = {}
    /\ IF filters.foodType = ""
       THEN /\ products' = << >>
            /\ pending' = (pending \ {"fetch"}) \cup {"filter"}
            /\ UNCHANGED <<isLoading, productReqs, latestProducts>>
       ELSE /\ isLoading' = TRUE
            /\ productReqs' = Append(Superseded(productReqs),
                                     [foodType |-> filters.foodType,
                                      latest |-> TRUE])
            /\ latestProducts' = Pending
            /\ pending' = pending \ {"fetch"}
            /\ UNCHANGED products
    /\ UNCHANGED <<filters, filtersRef, searchResults, hasSearched, panelVars,
                   cardVars, lastEvent>>

\* App, useEffect on [products, filters]: setSearchResults(products.filter).
FilterEffect ==
    /\ pending = {"filter"}
    /\ searchResults' = FilterProducts(products, filters)
    /\ pending' = {}
    /\ UNCHANGED <<filters, filtersRef, products, isLoading, hasSearched,
                   productReqs, latestProducts, panelVars, cardVars, lastEvent>>

\* ----------------------------------------------------- FilterPanel handlers

\* The value the life-stage select offers for the young pet.
youngPetLifeStageValue ==
    IF internalFilters.petType = "dog" THEN "puppy" ELSE "kitten"

\* The values the form's widgets pass to updateFilter for each key.
UpdateValues(key) ==
    CASE key = "foodType" -> FoodTypes
      [] key = "petType" -> PetTypes
      [] key = "isPregnant" -> BOOLEAN
      [] key = "isLactating" -> BOOLEAN
      [] key = "lifeStage" -> {youngPetLifeStageValue, "adult", "senior"}

\* A faulty variant of UpdatedFilters: the selection survives a species change.
UpdatedFiltersKeepingCare(prev, key, value) == [prev EXCEPT ![key] = value]

\* The updater function updateFilter passes to setInternalFilters.
UpdatedFilters(prev, key, value) ==
    IF key = "petType" /\ prev.petType # value
    THEN [[prev EXCEPT ![key] = value] EXCEPT !.specialCare = << >>]
    ELSE [prev EXCEPT ![key] = value]

\* updateFilter(key, value)
UpdateFilter(key, value) ==
    /\ pending = {}
    /\ internalFilters.petType # UpdatedFilters(internalFilters, key, value).petType
          => Len(careReqs) < MaxInFlight
    /\ internalFilters' = UpdatedFilters(internalFilters, key, value)
    /\ internalRef' = FreshRef(filtersRef)
    /\ pending' = IF internalFilters'.petType # internalFilters.petType
                  THEN {"care"} ELSE {}
    /\ lastEvent' = Event("updateFilter", key, "",
                         Len(internalFilters.specialCare), NoResult)
    /\ UNCHANGED <<appVars, cardVars, specialCareOptions, isLoadingSpecialCare,
                   errorSpecialCare, careReqs, latestCare>>

\* The ids of the option checkboxes the panel renders.
RenderedOptionIds ==
    IF ~isLoadingSpecialCare /\ errorSpecialCare = Null
    THEN {specialCareOptions[i].id : i \in 1..Len(specialCareOptions)}
    ELSE {}

\* The updater function toggleSpecialCare passes to setInternalFilters.
ToggledCare(prev, careId) ==
    [prev EXCEPT !.specialCare =
        IF ArrayIncludes(prev.specialCare, careId)
        THEN SelectSeq(prev.specialCare, LAMBDA id : id # careId)
        ELSE Append(prev.specialCare, careId)]

\* toggleSpecialCare(careId), from the checkbox of a rendered option.
ToggleSpecialCare(careId) ==
    /\ pending = {}
    /\ careId \in RenderedOptionIds
    /\ internalFilters' = ToggledCare(internalFilters, careId)
    /\ internalRef' = FreshRef(filtersRef)
    /\ lastEvent' = Event("toggleSpecialCare", careId, "",
                         Len(internalFilters.specialCare), NoResult)
    /\ UNCHANGED <<appVars, cardVars, specialCareOptions, isLoadingSpecialCare,
                   errorSpecialCare, careReqs, latestCare, pending>>

\* The continuation of loadOptions after its await, for the i-th outstanding
\* request and the answer resp.
CareSettle(i, resp) ==
    /\ pending = {}
    /\ i \in 1..Len(careReqs)
    /\ LET res == FetchSpecialCareOptionsApi(careReqs[i].petType, resp)
       IN /\ IF res.kind = "return"
             THEN /\ specialCareOptions' = res.value
                  /\ UNCHANGED errorSpecialCare
             ELSE /\ errorSpecialCare' =
                        (IF res.message # "" THEN res.message
                         ELSE "Failed to load options")
                  /\ UNCHANGED specialCareOptions
          /\ latestCare' = IF careReqs[i].latest THEN res ELSE latestCare
    /\ isLoadingSpecialCare' = FALSE
    /\ careReqs' = RemoveAt(careReqs, i)
    /\ lastEvent' = Event("careSettle", careReqs[i].petType, resp,
                         Len(internalFilters.specialCare),
                         FetchSpecialCareOptionsApi(careReqs[i].petType, resp))
    /\ UNCHANGED <<appVars, cardVars, internalFilters, internalRef, pending>>

\* ------------------------------------------------------------ App handlers

\* A faulty variant of AfterFiltersChange: the filter effect depends on
\* [products] alone.
AfterFiltersChangeWithoutFilter(next) ==
    {"sync"} \cup (IF next.foodType # filters.foodType THEN {"fetch"} ELSE {})

\* The effects a render runs after filters was replaced by the object next.
AfterFiltersChange(next) ==
    {"sync", "filter"}
        \cup (IF next.foodType # filters.foodType THEN {"fetch"} ELSE {})

\* Whether the loads that replacing filters by next sets off may start.
MayReplaceFilters(next) ==
    /\ next.foodType # filters.foodType => Len(productReqs) < MaxInFlight
    /\ next.petType # internalFilters.petType => Len(careReqs) < MaxInFlight

\* A faulty variant of AnyFilterSet: only the search term and the selected
\* special-care ids count.
AnySearchOrCareSet(newFilters) ==
    \/ newFilters.searchTerm # << >>
    \/ Len(newFilters.specialCare) > 0

\* The value handleFilters passes to setHasSearched.
AnyFilterSet(newFilters) ==
    \/ newFilters.foodType # ""
    \/ newFilters.searchTerm # << >>
    \/ newFilters.petType # ""
    \/ newFilters.lifeStage # ""
    \/ newFilters.isPregnant
    \/ newFilters.isLactating
    \/ Len(newFilters.specialCare) > 0

\* handleSubmit of the form: onSubmit(internalFilters), which is handleFilters.
HandleFilters ==
    /\ pending = {}
    /\ hasSearched' = AnyFilterSet(internalFilters)
    /\ IF internalRef = filtersRef
       THEN UNCHANGED <<filters, filtersRef, pending>>
       ELSE /\ MayReplaceFilters(internalFilters)
            /\ filters' = internalFilters
            /\ filtersRef' = internalRef
            /\ pending' = AfterFiltersChange(internalFilters)
    /\ lastEvent' = PlainEvent("handleFilters")
    /\ UNCHANGED <<products, searchResults, isLoading, productReqs,
                   latestProducts, panelVars, cardVars>>

\* onSearchInputChange, for the text the input now holds.
OnSearchInputChange(term) ==
    /\ pending = {}
    /\ MayReplaceFilters([filters EXCEPT !.searchTerm = term])
    /\ filters' = [filters EXCEPT !.searchTerm = term]
    /\ filtersRef' = FreshRef(internalRef)
    /\ pending' = AfterFiltersChange(filters')
    /\ lastEvent' = PlainEvent("onSearchInputChange")
    /\ UNCHANGED <<products, searchResults, isLoading, hasSearched,
                   productReqs, latestProducts, panelVars, cardVars>>

\* onSearch, from the Enter key in the search input.
OnSearch ==
    /\ pending = {}
    /\ hasSearched' = TRUE
    /\ lastEvent' = PlainEvent("onSearch")
    /\ UNCHANGED <<filters, filtersRef, products, searchResults, isLoading,
                   productReqs, latestProducts, panelVars, cardVars, pending>>

\* resetFilters
ResetFilters ==
    /\ pending = {}
    /\ hasSearched' = FALSE
    /\ IF filtersRef = InitialRef
       THEN UNCHANGED <<filters, filtersRef>>
       ELSE /\ MayReplaceFilters(initialFilters)
            /\ filters' = initialFilters
            /\ filtersRef' = InitialRef
    /\ IF initialFilters.foodType = ""
       THEN /\ products' = << >>
            /\ searchResults' = << >>
            /\ pending' = {"filter"} \cup
                  (IF filtersRef = InitialRef THEN {}
                   ELSE AfterFiltersChange(initialFilters))
       ELSE /\ pending' = (IF filtersRef = InitialRef THEN {}
                           ELSE AfterFiltersChange(initialFilters))
            /\ UNCHANGED <<products, searchResults>>
    /\ lastEvent' = PlainEvent("resetFilters")
    /\ UNCHANGED <<isLoading, productReqs, latestProducts, panelVars, cardVars>>


\* The continuation of fetchProducts after its awaits, for the i-th
\* outstanding request and the answer resp, leaving prods, loading and
\* searched in the three state variables it sets.
ProductSettleStep(i, resp, prods, loading, searched) ==
    /\ pending = {}
    /\ i \in 1..Len(productReqs)
    /\ products' = prods
    /\ isLoading' = loading
    /\ hasSearched' = searched
    /\ latestProducts' =
          IF productReqs[i].latest
          THEN [kind |-> "return", value |-> prods, message |-> ""]
          ELSE latestProducts
    /\ productReqs' = RemoveAt(productReqs, i)
    /\ pending' = {"filter"}
    /\ lastEvent' = Event("productSettle", productReqs[i].foodType, resp,
                         Len(internalFilters.specialCare), NoResult)
    /\ UNCHANGED <<filters, filtersRef, searchResults, panelVars, cardVars>>

\* A faulty variant of ProductSettle: the catch block leaves the product
\* list as it was.
ProductSettleKeepingProducts(i, resp) ==
    ProductSettleStep(i, resp,
        IF ProductTryThrows(resp) THEN products
        ELSE LoadedProducts(productReqs[i].foodType, resp),
        FALSE, TRUE)

\* A faulty variant of ProductSettle: the two flags are set at the end of
\* the try block instead of in finally.
ProductSettleWithoutFinally(i, resp) ==
    ProductSettleStep(i, resp, LoadedProducts(productReqs[i].foodType, resp),
        IF ProductTryThrows(resp) THEN isLoading ELSE FALSE,
        IF ProductTryThrows(resp) THEN hasSearched ELSE TRUE)

\* fetchProducts after its awaits: the try block's setProducts or the catch
\* block's, then the finally block's setIsLoading(false), setHasSearched(true).
ProductSettle(i, resp) ==
    ProductSettleStep(i, resp, LoadedProducts(productReqs[i].foodType, resp),
        FALSE, TRUE)

\* ------------------------------------------------------------ view

\* Which of the result column's cards the App renders.
View ==
    IF isLoading THEN "loading"
    ELSE IF ~hasSearched THEN "ready"
    ELSE IF Len(searchResults) = 0 THEN "empty"
    ELSE "results"

\* ------------------------------------------------------------ ProductCard

\* ProductCard, rendered for a product of the result grid:
\* displayBenefits = getNormalizedBenefits(rawBenefits).
ProductCard ==
    /\ View = "results"
    /\ displayBenefits' = getNormalizedBenefits(rawBenefits)
    /\ UNCHANGED <<appVars, panelVars, pending, lastEvent, rawBenefits>>

\* ------------------------------------------------------- specifications

SearchTerms == {<< >>, <<"A">>}

Effects == SyncEffect \/ CareEffect \/ FetchEffect \/ FilterEffect

\* The App at work: the user edits food type and pregnancy in the form,
\* submits, types in the search box, presses Enter, resets; the catalog and
\* taxonomy requests are answered in any order and in any way.
AppKeys == {"foodType", "isPregnant"}

Next ==
    \/ Effects
    \/ \E key \in AppKeys : \E value \in UpdateValues(key) :
          UpdateFilter(key, value)
    \/ HandleFilters
    \/ \E term \in SearchTerms : OnSearchInputChange(term)
    \/ OnSearch
    \/ ResetFilters
    \/ \E i \in 1..MaxInFlight : \E resp \in ProductResponses :
          ProductSettle(i, resp)
    \/ \E i \in 1..MaxInFlight : \E resp \in CareResponses : CareSettle(i, resp)

Spec == Init /\ [][Next]_vars

\* The filter form at work: the user edits every field and toggles the
\* rendered special-care options, never submitting; the taxonomy requests
\* are answered in any order and in any way.
FormKeys == {"foodType", "petType", "isPregnant", "isLactating", "lifeStage"}

PanelNext ==
    \/ Effects
    \/ \E key \in FormKeys : \E value \in UpdateValues(key) :
          UpdateFilter(key, value)
    \/ \E careId \in RenderedOptionIds : ToggleSpecialCare(careId)
    \/ \E i \in 1..MaxInFlight : \E resp \in CareResponses : CareSettle(i, resp)

PanelSpec == Init /\ [][PanelNext]_vars

\* The product loader at work: the user picks a food type, submits, presses
\* Enter, resets; every pending effect runs and the answer to an outstanding
\* catalog request is eventually handled, as the event loop runs React's
\* scheduled effects and the continuation of a settled promise.
LoaderNext ==
    \/ Effects
    \/ \E value \in UpdateValues("foodType") : UpdateFilter("foodType", value)
    \/ HandleFilters
    \/ OnSearch
    \/ ResetFilters
    \/ \E i \in 1..MaxInFlight : \E resp \in ProductResponses :
          ProductSettle(i, resp)

FairSpec ==
    /\ Init
    /\ [][LoaderNext]_vars
    /\ WF_vars(Effects)
    /\ SF_vars(\E i \in 1..MaxInFlight : \E resp \in ProductResponses :
                  ProductSettle(i, resp))

\* The filter effect alone, over a product list of one product and a filter
\* state both drawn from bounded sets.
ProductNames == {<<"A", "b">>, <<"b">>, <<"a", "B", "a">>}

ProductCares ==
    {CareUndefined, CareNull, CareArray(<< >>),
     CareArray(<<Care("d1"), Care("d2")>>), CareObject(<<Care("d2")>>),
     CareObject(<<Care("c1"), Care("d1")>>)}

ProductUniverse ==
    {[id |-> "1", name |-> n, productType |-> "dry", petType |-> pt,
      lifeStage |-> ls, specialcares |-> sc, forPregnant |-> fp,
      forLactating |-> fl] :
        n \in ProductNames, pt \in {"dog", "cat"}, ls \in {"adult", "Adult"},
        sc \in ProductCares, fp \in {"true", "false", "undefined"},
        fl \in {"true", "undefined"}}

FilterUniverse ==
    {[foodType |-> "dry", petType |-> pt, isPregnant |-> ip,
      isLactating |-> il, lifeStage |-> ls, specialCare |-> sc,
      searchTerm |-> st] :
        pt \in {"", "dog", "cat"}, ip \in BOOLEAN, il \in BOOLEAN,
        ls \in {"", "adult"}, sc \in {<< >>, <<"d1">>, <<"c1", "d2">>},
        st \in {<< >>, <<"a", "b">>, <<"B">>}}

MatchInit ==
    /\ filters \in FilterUniverse
    /\ filtersRef = 1
    /\ \E p \in ProductUniverse : products = <<p>>
    /\ searchResults = << >>
    /\ isLoading = FALSE
    /\ hasSearched = TRUE
    /\ internalFilters = filters
    /\ internalRef = 1
    /\ specialCareOptions = << >>
    /\ isLoadingSpecialCare = FALSE
    /\ errorSpecialCare = Null
    /\ productReqs = << >>
    /\ careReqs = << >>
    /\ pending = {"filter"}
    /\ latestProducts = [kind |-> "return", value |-> products, message |-> ""]
    /\ latestCare = Returned(<< >>)
    /\ lastEvent = Event("productSettle", "dry", "ok", Len(filters.specialCare),
                        NoResult)
    /\ rawBenefits = BenefitsUndefined
    /\ displayBenefits = NotRendered

MatchSpec == MatchInit /\ [][FilterEffect]_vars

\* The product card alone, in the result grid of the loaded dry catalog, over
\* a benefits value drawn from bounded sets: arrays of up to MaxItems strings,
\* strings of up to MaxChars characters, and the values that are neither.
MaxItems == 5
MaxChars == 7

BenefitItems == {<<"a">>, << >>, <<" ", "b">>}
BenefitChars == {"a", " ", ",", ";", "\n"}

SeqsUpTo(S, n) == UNION {[1..k -> S] : k \in 0..n}

BenefitsUniverse ==
    {BenefitsArray(items) : items \in SeqsUpTo(BenefitItems, MaxItems)}
        \cup {BenefitsString(chars) : chars \in SeqsUpTo(BenefitChars, MaxChars)}
        \cup {BenefitsUndefined, BenefitsOther("null"), BenefitsOther("number"),
              BenefitsOther("object")}

CardInit ==
    /\ filters = initialFilters
    /\ filtersRef = InitialRef
    /\ products = LoadedProducts("dry", "ok")
    /\ searchResults = FilterProducts(products, filters)
    /\ isLoading = FALSE
    /\ hasSearched = TRUE
    /\ internalFilters = initialFilters
    /\ internalRef = InitialRef
    /\ specialCareOptions = << >>
    /\ isLoadingSpecialCare = FALSE
    /\ errorSpecialCare = Null
    /\ productReqs = << >>
    /\ careReqs = << >>
    /\ pending = {}
    /\ latestProducts = [kind |-> "return", value |-> products, message |-> ""]
    /\ latestCare = Returned(<< >>)
    /\ lastEvent = Event("productSettle", "dry", "ok", 0, NoResult)
    /\ rawBenefits \in BenefitsUniverse
    /\ displayBenefits = NotRendered

CardSpec == CardInit /\ [][ProductCard]_vars

\* ------------------------------------------------------------------ claims

\* The criteria of the filter, each stated on its own.
NameCriterion(p, f) ==
    f.searchTerm = << >>
    \/ \E i \in 0..Len(p.name) : \E j \in i..Len(p.name) :
          /\ j - i = Len(f.searchTerm)
          /\ \A k \in 1..(j - i) :
                LowerChar(p.name[i + k]) = LowerChar(f.searchTerm[k])

CareCriterion(p, f) ==
    f.specialCare = << >>
    \/ {p.specialcares.items[i].id : i \in 1..Len(p.specialcares.items)}
          \cap {f.specialCare[i] : i \in 1..Len(f.specialCare)} # {}

AllCriteriaHold(p, f) ==
    /\ NameCriterion(p, f)
    /\ f.petType = "" \/ p.petType = f.petType
    /\ f.lifeStage = "" \/ p.lifeStage = f.lifeStage
    /\ ~f.isPregnant \/ p.forPregnant = "true"
    /\ ~f.isLactating \/ p.forLactating = "true"
    /\ CareCriterion(p, f)

\* C1: once the filter effect has run, a product of the list is among the
\* results exactly when every enabled criterion holds of it: the search term
\* occurs in its name ignoring case, its petType and raw lifeStage equal the
\* selected ones, it carries the pregnancy and lactation flags asked for, and
\* at least one selected special-care id is among its ids, whether they come
\* as an array or as a keyed object.
C1_MatchesIffAllCriteriaHold ==
    pending = {} =>
        \A i \in 1..Len(products) :
            (\E j \in 1..Len(searchResults) : searchResults[j] = products[i])
                <=> AllCriteriaHold(products[i], filters)

\* C1's case: a product kept under a search term in another case, a species,
\* a life stage, both flags and two selected ids of which its keyed object
\* holds one.
C1_KeptByEveryCriterion ==
    /\ pending = {}
    /\ searchResults = products
    /\ filters.searchTerm = <<"a", "b">>
    /\ products[1].name = <<"A", "b">>
    /\ filters.petType = "dog"
    /\ filters.lifeStage = "adult"
    /\ filters.isPregnant
    /\ filters.isLactating
    /\ filters.specialCare = <<"c1", "d2">>
    /\ products[1].specialcares = CareObject(<<Care("d2")>>)

\* The positions of the products the filter keeps, and the k-th of them.
KeptPositions(ps, f) == {i \in 1..Len(ps) : Matches(ps[i], f)}
KthKept(ps, f, k) ==
    CHOOSE i \in KeptPositions(ps, f) :
        Cardinality({j \in KeptPositions(ps, f) : j < i}) = k - 1

\* C2: whenever no effect is pending, searchResults holds exactly the
\* products of the current list that the current filters keep, in the order
\* of the list.
C2_ResultsAreTheFilteredProducts ==
    pending = {} =>
        /\ Len(searchResults) = Cardinality(KeptPositions(products, filters))
        /\ \A k \in 1..Len(searchResults) :
              searchResults[k] = products[KthKept(products, filters, k)]

\* C2's case: after a search-term edit on a loaded catalog of three, the
\* results are a proper part of it, of more than one product.
C2_ProperPartAfterSearchEdit ==
    /\ pending = {}
    /\ lastEvent.op = "onSearchInputChange"
    /\ filters.searchTerm # << >>
    /\ Len(products) = 3
    /\ Len(searchResults) = 2

\* C3: updateFilter with petType and a value other than the current one
\* leaves the working filters with no special-care id selected; every other
\* updateFilter leaves the selection as it was.
C3_PetTypeChangeClearsCare ==
    [][\A key \in FormKeys : \A value \in UpdateValues(key) :
          UpdateFilter(key, value) =>
              IF key = "petType" /\ value # internalFilters.petType
              THEN internalFilters'.specialCare = << >>
              ELSE internalFilters'.specialCare = internalFilters.specialCare
      ]_vars

\* C3's case: the species was changed to cat while two ids were selected.
C3_ChangedSpeciesWithSelection ==
    /\ lastEvent.op = "updateFilter"
    /\ lastEvent.key = "petType"
    /\ lastEvent.before = 2
    /\ internalFilters.petType = "cat"
    /\ internalFilters.specialCare = << >>

\* Whether every started load has been answered and every effect has run.
CareLoaderQuiet == careReqs = << >> /\ pending = {}
ProductLoaderQuiet == productReqs = << >> /\ pending = {}

\* C4: once every special-care load has completed, the option list and the
\* error message are those of the load started last, the one for the
\* selected petType: its options with no error if it returned, its message
\* if it threw.
C4_LatestCareLoadSettlesThePanel ==
    CareLoaderQuiet =>
        /\ latestCare.kind = "return" =>
              specialCareOptions = latestCare.value /\ errorSpecialCare = Null
        /\ latestCare.kind = "throw" => errorSpecialCare = latestCare.message

\* C5: once every product load has completed, the product list is the one
\* the load started last has set, and every product in it carries the
\* current foodType as its productType.
C5_LatestProductLoadSetsTheList ==
    ProductLoaderQuiet =>
        /\ products = latestProducts.value
        /\ \A i \in 1..Len(products) :
              products[i].productType = filters.foodType

\* C6: after a special-care load has settled the loading flag is false; if
\* the load succeeded the option list is the fetched one and there is no
\* error message; if it failed the option list is empty and there is an
\* error message.
C6_SettledPanelState ==
    lastEvent.op = "careSettle" =>
        /\ ~isLoadingSpecialCare
        /\ lastEvent.resp \in {"ok", "noshape"} =>
              /\ specialCareOptions = lastEvent.res.value
              /\ errorSpecialCare = Null
        /\ lastEvent.resp \in {"status", "transport"} =>
              /\ specialCareOptions = << >>
              /\ errorSpecialCare # Null

\* C7, as the claim states it: the loader throws when the call fails and
\* also when the answer carries no nested list.
C7_LoaderThrowsOnFailureAndMissingList ==
    lastEvent.op = "careSettle"
    /\ lastEvent.resp \in {"status", "transport", "noshape"}
        => lastEvent.res.kind = "throw"

\* C7, amended: the loader throws, with a message the panel then shows, when
\* the call fails (transport failure or non-success status); when the answer
\* carries no nested list it returns the empty list, which the panel takes
\* as the options.
C7_LoaderThrowsOnlyOnCallFailure ==
    lastEvent.op = "careSettle" =>
        /\ lastEvent.resp \in {"status", "transport"} =>
              /\ lastEvent.res.kind = "throw"
              /\ lastEvent.res.message # ""
              /\ errorSpecialCare = lastEvent.res.message
        /\ lastEvent.resp = "noshape" =>
              /\ lastEvent.res = Returned(<< >>)
              /\ specialCareOptions = << >>

\* C7's case: an answer without the nested list has settled a load for cat,
\* leaving an empty option list and no error.
C7_MissingListSettledAsEmpty ==
    /\ lastEvent.op = "careSettle"
    /\ lastEvent.resp = "noshape"
    /\ lastEvent.key = "cat"
    /\ specialCareOptions = << >>
    /\ errorSpecialCare = Null
    /\ ~isLoadingSpecialCare

\* C8: after a product load has failed (transport failure, non-success
\* status, unparsable body) the product list is empty and hasSearched is
\* set; once the effects have run with no other load outstanding, the App
\* shows the empty-results card.
C8_FailedProductLoadFailsSoft ==
    lastEvent.op = "productSettle"
    /\ lastEvent.resp \in {"status", "transport", "parse"}
        => /\ products = << >>
           /\ hasSearched
           /\ ProductLoaderQuiet => View = "empty"

\* C8's case: the load for wet food has failed on an unparsable body, no
\* other load is outstanding, and the empty-results card is up.
C8_ParseFailureShowsEmptyCard ==
    /\ lastEvent.op = "productSettle"
    /\ lastEvent.resp = "parse"
    /\ lastEvent.key = "wet"
    /\ ProductLoaderQuiet
    /\ View = "empty"

\* C9: the step that settles a product load clears isLoading and sets
\* hasSearched, whatever the answer; isLoading is never set while no request
\* is outstanding; and isLoading, once set, is eventually cleared.
C9_ProductLoadAlwaysSettles ==
    /\ [][\A i \in 1..MaxInFlight : \A resp \in ProductResponses :
             ProductSettle(i, resp) => ~isLoading' /\ hasSearched']_vars
    /\ [](isLoading => Len(productReqs) > 0)
    /\ (isLoading ~> ~isLoading)

\* C9's case: the only outstanding load has settled on a transport failure,
\* and the loader is out of its loading state with hasSearched set.
C9_FailedLoadSettled ==
    /\ lastEvent.op = "productSettle"
    /\ lastEvent.resp = "transport"
    /\ productReqs = << >>
    /\ ~isLoading
    /\ hasSearched

\* C10: neither loader ever has more than one request outstanding.
C10_OneRequestPerLoader ==
    Len(productReqs) <= 1 /\ Len(careReqs) <= 1

\* Whether no product of the loaded list meets the criteria of the filters.
NoneMatches == \A i \in 1..Len(products) : ~AllCriteriaHold(products[i], filters)

\* C11: after a submit, and after the load a submit may have set off has
\* settled, with every effect run and no product load outstanding: if the
\* filters match none of the loaded products, the results are empty,
\* hasSearched is set, isLoading is clear and the App shows the empty-results
\* card.
C11_NoMatchShowsEmptyCard ==
    (/\ lastEvent.op \in {"handleFilters", "productSettle"}
     /\ ProductLoaderQuiet
     /\ NoneMatches)
        => /\ searchResults = << >>
           /\ hasSearched
           /\ ~isLoading
           /\ View = "empty"

\* C11's case: pregnancy was submitted over a loaded catalog of two products,
\* neither of them flagged for pregnant animals, and the empty-results card
\* is up.
C11_PregnantOverUnflaggedCatalog ==
    /\ lastEvent.op = "handleFilters"
    /\ ProductLoaderQuiet
    /\ filters.isPregnant
    /\ Len(products) = 2
    /\ \A i \in 1..Len(products) : products[i].forPregnant # "true"
    /\ searchResults = << >>
    /\ View = "empty"

\* The pieces of a string that the separators newline, semicolon and comma
\* delimit, as pairs of first and last position, left out those that hold
\* nothing but blanks; and the k-th of them without the blanks around it.
IsBlank(c) == c \in {" ", "\t", "\r"}

Pieces(s) ==
    {<<i, j>> \in (1..Len(s)) \X (1..Len(s)) :
        /\ i <= j
        /\ \A k \in i..j : s[k] \notin {"\n", ";", ","}
        /\ i = 1 \/ s[i - 1] \in {"\n", ";", ","}
        /\ j = Len(s) \/ s[j + 1] \in {"\n", ";", ","}
        /\ \E k \in i..j : ~IsBlank(s[k])}

KthPiece(s, k) ==
    LET piece == CHOOSE p \in Pieces(s) :
                     Cardinality({q \in Pieces(s) : q[1] < p[1]}) = k - 1
        inked == {n \in piece[1]..piece[2] : ~IsBlank(s[n])}
        from == CHOOSE n \in inked : \A m \in inked : n <= m
        to == CHOOSE n \in inked : \A m \in inked : m <= n
    IN [n \in 1..(to - from + 1) |-> s[from + n - 1]]

AtMostThree(n) == IF n < 3 THEN n ELSE 3

\* C12: the card's call of the benefits normalizer returns, never throws,
\* and returns at most 3 items: of an array its first 3 elements in their
\* order; of a string the first 3 pieces between newlines, semicolons and
\* commas that are not blank, each without the blanks around it, in their
\* order; of an absent value or a value of any other type the empty list.
C12_BenefitsNormalized ==
    displayBenefits # NotRendered =>
        /\ displayBenefits.kind = "return"
        /\ Len(displayBenefits.value) <= 3
        /\ rawBenefits.type = "array" =>
              /\ Len(displayBenefits.value) = AtMostThree(Len(rawBenefits.items))
              /\ \A k \in 1..Len(displayBenefits.value) :
                    displayBenefits.value[k] = rawBenefits.items[k]
        /\ rawBenefits.type = "string" =>
              /\ Len(displayBenefits.value) =
                    AtMostThree(Cardinality(Pieces(rawBenefits.chars)))
              /\ \A k \in 1..Len(displayBenefits.value) :
                    displayBenefits.value[k] = KthPiece(rawBenefits.chars, k)
        /\ rawBenefits.type \notin {"array", "string"} =>
              displayBenefits.value = << >>

\* C12's case: the card has rendered a string of four pieces, delimited by a
\* comma, a semicolon and a newline, and shows three benefit lines.
C12_FourPiecesThreeShown ==
    /\ rawBenefits.type = "string"
    /\ Cardinality(Pieces(rawBenefits.chars)) = 4
    /\ \A c \in {",", ";", "\n"} :
          \E i \in 1..Len(rawBenefits.chars) : rawBenefits.chars[i] = c
    /\ displayBenefits.kind = "return"
    /\ Len(displayBenefits.value) = 3

\* The ids of the special-care taxonomy of a species.
TaxonomyIds(petType) ==
    {RawTaxonomy(petType)[i].specialcare_id : i \in 1..Len(RawTaxonomy(petType))}

\* C13: every special-care id selected in the form belongs to the taxonomy
\* of the species selected in the form.
C13_SelectedCareBelongsToSpecies ==
    \A i \in 1..Len(internalFilters.specialCare) :
        internalFilters.specialCare[i] \in TaxonomyIds(internalFilters.petType)

\* C14: after resetFilters, once the effects it set off have run, the App's
\* filters and the form's working filters both equal initialFilters.
C14_ResetRestoresDefaults ==
    lastEvent.op = "resetFilters" /\ pending = {} =>
        /\ filters = initialFilters
        /\ internalFilters = initialFilters

=============================================================================
